---------------------------- MODULE Spec2Model ----------------------------
(***************************************************************************)
(* UniDOS (src/main.c): the emulation driver, the .COM loader, the PSP     *)
(* builder and the interrupt dispatcher, as a state machine.               *)
(*                                                                         *)
(* The Unicorn engine is the environment: uc_open and uc_mem_map may fail, *)
(* and the run loop (uc_emu_start) raises software interrupts, faults,     *)
(* reaches the end address or honours a stop request.  int20(), int21()    *)
(* and MK_FP() are declared in int20.h / int21.h; here they follow the     *)
(* design document (sections 3, 4.5 and 4.6).                              *)
(***************************************************************************)
EXTENDS Integers, Sequences, FiniteSets, TLC

VARIABLES
    pc,         \* position in main(): see the actions
    argv,       \* host argument vector (argc = Len(argv)), strings as byte sequences
    file,       \* the host file named by argv[1]: [exists, size]
    memory,     \* uint8_t memory[MEM_SIZE] of main(): [fill, img, cells]
    fsize,      \* main()'s fsize, the value load_com returned
    err,        \* main()'s err
    regs,       \* the engine's register file (the registers this layer touches)
    ucState,    \* engine context: "none", "open", "closed"
    ucMapped,   \* uc_mem_map succeeded
    ucMem,      \* what uc_mem_write put into the mapped memory: [len, src]
    ucHook,     \* the callback installed for UC_HOOK_INTR: "none" or "hook_intr"
    stop,       \* the engine was asked to stop (uc_emu_stop)
    log,        \* library and engine calls issued so far, in order
    stderr,     \* diagnostics printed to standard error, in order
    stdout,     \* lines printed to standard output, in order
    exitCode,   \* <<v>>: main() returned v or exit(v) was called; << >> while running
    pspWrites,  \* addresses setup_psp stored to
    nIntr,      \* interrupts delivered to the hook in this run
    lastIntr,   \* the last delivery: [intno, branch]
    int20Calls, \* calls of int20() so far
    int21Calls  \* calls of int21() so far

vars == <<pc, argv, file, memory, fsize, err, regs, ucState, ucMapped, ucMem,
          ucHook, stop, log, stderr, stdout, exitCode, pspWrites, nIntr,
          lastIntr, int20Calls, int21Calls>>

-----------------------------------------------------------------------------
(* Bounds of the model *)

\* trailing host arguments after the image path
MaxArgs == 2
\* software interrupts the guest raises in one run
MaxIntr == 2

-----------------------------------------------------------------------------
(* Program constants *)

DOS_ADDR == 256
MEM_SIZE == 1048576
MaxComSize == 65280
CmdLineCap == 126
EXIT_FAILURE == 1
CR == 13
SPACE == 32

\* struct PSP, #pragma pack(1): the fields in declaration order with their sizes
PSPFields ==
    << <<"CPMExit", 2>>, <<"FirstFreeSegment", 2>>, <<"Reserved1", 1>>,
       <<"CPMCall5Compat", 5>>, <<"OldTSRAddress", 4>>, <<"OldBreakAddress", 4>>,
       <<"CriticalErrorHandlerAddress", 4>>, <<"CallerPSPSegment", 2>>,
       <<"JobFileTable", 20>>, <<"EnvironmentSegment", 2>>, <<"INT21SSSP", 4>>,
       <<"JobFileTableSize", 2>>, <<"JobFileTablePointer", 4>>,
       <<"PreviousPSP", 4>>, <<"Reserved2", 4>>, <<"DOSVersion", 2>>,
       <<"Reserved3", 14>>, <<"DOSFarCall", 3>>, <<"Reserved4", 2>>,
       <<"ExtendedFCB1", 7>>, <<"FCB1", 16>>, <<"FCB2", 20>>,
       <<"CommandLineLength", 1>>, <<"CommandLine", 127>> >>

RECURSIVE SizeUpTo(_)
\* total size of the first n fields of the packed struct
SizeUpTo(n) == IF n = 0 THEN 0 ELSE SizeUpTo(n - 1) + PSPFields[n][2]

\* offsetof(struct PSP, name)
OffsetOf(name) ==
    LET n == CHOOSE k \in 1..Len(PSPFields) : PSPFields[k][1] = name
    IN  SizeUpTo(n - 1)

\* sizeof(struct PSP)
SizeofPSP == SizeUpTo(Len(PSPFields))

\* MK_FP(seg, off): real-mode address resolution (spec section 3)
MK_FP(seg, off) == seg * 16 + off

-----------------------------------------------------------------------------
(* Inputs *)

\* a string of n letters
Letters(n) == [j \in 1..n |-> 97 + (j % 26)]

Prog == <<117, 110, 105, 100, 111, 115>>
Com  == <<97, 46, 99, 111, 109>>
Foo  == <<102, 111, 111>>
Bar  == <<98, 97, 114>>

\* trailing arguments: empty, short, long enough to leave room for one more
\* separator only, and long enough to overflow the tail on their own
ArgChoices == {<< >>, Foo, Bar, Letters(124), Letters(127)}

ArgvSet ==
    {<<Prog>>} \cup
    UNION {{<<Prog, Com>> \o t : t \in [1..n -> ArgChoices]} : n \in 0..MaxArgs}

\* ftell() results: empty, smallest, the largest valid image, and too large
FileSizes == {0, 1, 2, 65280, 65281, 65537}

FileSet == {[exists |-> FALSE, size |-> 0]} \cup
           {[exists |-> TRUE, size |-> s] : s \in FileSizes}

\* byte k (from 0) of the image file
FileByte(k) == (205 + 83 * k) % 256

\* interrupt vectors the guest raises, AH and IP values at the trap
IntVectors == {16, 32, 33}
AhValues == {2, 76}
IpValues == {258}

\* error codes uc_open / uc_emu_start report (UC_ERR_*), 0 = UC_ERR_OK
UcErrors == {2, 10}

-----------------------------------------------------------------------------
(* Host memory, uint8_t memory[MEM_SIZE]: the value the untouched cells hold   *)
(* (memset's, or indeterminate), the extent fread filled from the file, and    *)
(* the cells stored to one by one, which override both.                        *)

NoCells == [a \in {} |-> 0]

\* before the memset the array is indeterminate: -1 stands for "no byte value"
MemUninit == [fill |-> -1, img |-> [base |-> 0, len |-> 0], cells |-> NoCells]

\* memory[a]
MemRead(m, a) ==
    IF a \in DOMAIN m.cells THEN m.cells[a]
    ELSE IF m.img.base <= a /\ a < m.img.base + m.img.len
         THEN FileByte(a - m.img.base)
         ELSE m.fill

\* memset(memory, 0, MEM_SIZE)
Memset0(m) == [fill |-> 0, img |-> [base |-> 0, len |-> 0], cells |-> NoCells]

\* fread(memory + base, len, 1, f): the file's first len bytes, from base on
Fread(m, base, len) ==
    [m EXCEPT !.img = [base |-> base, len |-> len],
              !.cells = [a \in {x \in DOMAIN m.cells : x < base \/ x >= base + len}
                            |-> m.cells[a]]]

\* store the bytes w (address -> byte) into m
MemStore(m, w) == [m EXCEPT !.cells = w @@ m.cells]

\* the engine's mapped memory after uc_mem_write(uc, 0, src, len); zero before
UcMemRead(um, a) == IF a < um.len THEN MemRead(um.src, a) ELSE 0

-----------------------------------------------------------------------------
(* setup_psp (main.c:55-83).  It only stores; the stores are collected as a   *)
(* function address -> byte, later stores overriding earlier ones, together   *)
(* with the uint8_t counter c.                                                *)

\* argv[i][j] of a C string: the bytes, then the NUL terminator
CharAt(s, j) == IF j < Len(s) THEN s[j + 1] ELSE 0

\* PSP->field[k] = v
PspStore(st, abs, field, k, v) ==
    [st EXCEPT !.w = ((abs + OffsetOf(field) + k) :> v) @@ st.w]

\* the copy starting at the image path
FirstArgIndexOne == 2 - 1

\* the index of the first argument copied: for (int i = 2; ...
FirstArgIndex == 2

\* the for loop with its capacity test off by one
OuterCondOffByOne(i, argc, c) == i < argc /\ c <= CmdLineCap

\* the for loop's condition: i < argc && c < 0x7E
OuterCond(i, argc, c) == i < argc /\ c < CmdLineCap

\* the while loop without its capacity test
InnerCondNoCap(ch, c) == ch # 0

\* the while loop's condition: argv[i][j] && c < 0x7E
InnerCond(ch, c) == ch # 0 /\ c < CmdLineCap

\* how many times the while loop of lines 78-79 runs from counter c: the first
\* j at which its condition fails (the NUL terminator fails it at the latest)
InnerCount(arg, c) ==
    CHOOSE n \in 0..Len(arg) :
        /\ ~InnerCond(CharAt(arg, n), (c + n) % 256)
        /\ \A k \in 0..(n - 1) : InnerCond(CharAt(arg, k), (c + k) % 256)

\* while (argv[i][j] && c < 0x7E) PSP->CommandLine[c++] = argv[i][j++];
InnerLoop(st, abs, arg) ==
    LET n    == InnerCount(arg, st.c)
        base == abs + OffsetOf("CommandLine")
        \* iteration k stores argv[i][k] at CommandLine[(c + k) % 256]
        new  == [a \in {base + ((st.c + k) % 256) : k \in 0..(n - 1)} |->
                    CharAt(arg, (a - base - st.c) % 256)]
    IN  [w |-> new @@ st.w, c |-> (st.c + n) % 256]

RECURSIVE OuterLoop(_, _, _, _)
\* for (i = 2; i < argc && c < 0x7E; i++) { j = 0; CommandLine[c++] = ' '; while ... }
OuterLoop(st, abs, args, i) ==
    IF OuterCond(i, Len(args), st.c)
    THEN OuterLoop(InnerLoop([PspStore(st, abs, "CommandLine", st.c, SPACE)
                                  EXCEPT !.c = (st.c + 1) % 256],
                             abs, args[i + 1]),
                   abs, args, i + 1)
    ELSE st

\* the fixed stores of lines 63-73: INT 20h, INT 21h + RETF, the empty first FCB
PspFixed(abs) ==
    LET s0 == [w |-> NoCells, c |-> 0]
        s1 == PspStore(s0, abs, "CPMExit", 0, 205)
        s2 == PspStore(s1, abs, "CPMExit", 1, 32)
        s3 == PspStore(s2, abs, "DOSFarCall", 0, 205)
        s4 == PspStore(s3, abs, "DOSFarCall", 1, 33)
        s5 == PspStore(s4, abs, "DOSFarCall", 2, 203)
        s6 == PspStore(s5, abs, "FCB1", 0, 1)
    IN  PspStore(s6, abs, "FCB1", 1, 32)

\* the whole of setup_psp(seg, memory, argc, argv): its stores and the final c
setup_psp(seg, args) ==
    LET abs == MK_FP(seg, 0)
        st  == OuterLoop(PspFixed(abs), abs, args, FirstArgIndex)
        t1  == PspStore(st, abs, "CommandLine", st.c, CR)
    IN  PspStore(t1, abs, "CommandLineLength", 0, st.c)

-----------------------------------------------------------------------------
(* load_com (main.c:93-137) *)

\* the size check without its test for the empty file
SizeInvalidNoZero(sz) == sz > MaxComSize

\* the size check of line 108 rejects the image
SizeInvalid(sz) == sz = 0 \/ sz > MaxComSize

\* the load without the memset
LoadImageNoMemset(m, sz) == Fread(m, DOS_ADDR, sz)

\* memset(memory, 0, MEM_SIZE); fread(memory + DOS_ADDR, fsize, 1, f);
LoadImage(m, sz) == Fread(Memset0(m), DOS_ADDR, sz)

\* the register snapshot load_com writes: SP = 0xfffe, CS = DS = ES = SS = 0
LoadRegs(r) == [r EXCEPT !.sp = 65534, !.cs = 0, !.ds = 0, !.es = 0, !.ss = 0]

\* the calls load_com makes when fopen fails (lines 95-100)
FopenFailCalls == <<"fopen", "perror", "uc_close", "exit">>

\* the size-check failure path without its uc_close
SizeFailCallsNoClose == <<"fopen", "fseek", "ftell", "fseek", "fclose", "exit">>

\* the calls load_com makes when the size check fails (lines 103-113)
SizeFailCalls == <<"fopen", "fseek", "ftell", "fseek", "fclose", "uc_close", "exit">>

\* the calls load_com makes when it loads the image (lines 95-136)
LoadCalls ==
    <<"fopen", "fseek", "ftell", "fseek", "memset", "fread", "uc_reg_write",
      "uc_reg_write", "uc_reg_write", "uc_reg_write", "uc_reg_write", "fclose">>

-----------------------------------------------------------------------------
(* hook_intr (main.c:140-160) and the two handlers it calls *)

\* the switch with the default label falling through to case 0x21
hook_intr_fallthrough(intno) ==
    CASE intno = 32 -> "int20"
      [] OTHER      -> "int21"

\* the switch without its case 0x20
hook_intr_no20(intno) ==
    CASE intno = 33 -> "int21"
      [] OTHER      -> "default"

\* the switch of lines 149-159: which branch the vector takes
hook_intr(intno) ==
    CASE intno = 33 -> "int21"
      [] intno = 32 -> "int20"
      [] OTHER      -> "default"

\* int20(uc): signals the engine to stop after the current instruction (spec 4.6)
Int20Stops == TRUE

\* int21(uc): only the process-termination function (AH = 4Ch) stops the engine;
\* every other selector, supported or not, lets the run continue (spec 4.5)
Int21Stops(ah) == ah = 76

\* what the context is after the calls cs
StateAfter(st, cs) ==
    IF \E k \in 1..Len(cs) : cs[k] = "uc_close" THEN "closed" ELSE st

-----------------------------------------------------------------------------
(* The state machine *)

Init ==
    /\ pc = "main"
    /\ argv \in ArgvSet
    /\ file \in FileSet
    /\ memory = MemUninit
    /\ fsize = 0
    /\ err = 0
    /\ regs = [sp |-> 0, cs |-> 0, ds |-> 0, es |-> 0, ss |-> 0, ip |-> 0, ah |-> 0]
    /\ ucState = "none"
    /\ ucMapped = FALSE
    /\ ucMem = [len |-> 0, src |-> MemUninit]
    /\ ucHook = "none"
    /\ stop = FALSE
    /\ log = << >>
    /\ stderr = << >>
    /\ stdout = << >>
    /\ exitCode = << >>
    /\ pspWrites = {}
    /\ nIntr = 0
    /\ lastIntr = [intno |-> -1, branch |-> "none"]
    /\ int20Calls = 0
    /\ int21Calls = 0

\* main.c:170-175: a missing argument prints the usage and returns -1
MainArgs ==
    /\ pc = "main"
    /\ IF Len(argv) = 1
       THEN /\ stdout' = Append(stdout, <<"usage">>)
            /\ exitCode' = <<-1>>
            /\ pc' = "exit"
       ELSE /\ pc' = "uc_open"
            /\ UNCHANGED <<stdout, exitCode>>
    /\ UNCHANGED <<argv, file, memory, fsize, err, regs, ucState, ucMapped, ucMem,
                   ucHook, stop, log, stderr, pspWrites, nIntr, lastIntr,
                   int20Calls, int21Calls>>

\* main.c:177-181: uc_open; on failure a diagnostic and return 1
UcOpen ==
    /\ pc = "uc_open"
    /\ \E e \in {0} \cup UcErrors :
        /\ err' = e
        /\ log' = Append(log, "uc_open")
        /\ IF e # 0
           THEN /\ stderr' = Append(stderr, "Cannot initialize unicorn")
                /\ exitCode' = <<1>>
                /\ pc' = "exit"
                /\ UNCHANGED ucState
           ELSE /\ ucState' = "open"
                /\ pc' = "uc_mem_map"
                /\ UNCHANGED <<stderr, exitCode>>
    /\ UNCHANGED <<argv, file, memory, fsize, regs, ucMapped, ucMem, ucHook, stop,
                   stdout, pspWrites, nIntr, lastIntr, int20Calls, int21Calls>>

\* the calls main makes when uc_mem_map fails (lines 184-188)
MapFailCalls == <<"uc_mem_map", "uc_close">>

\* the value main returns when uc_mem_map fails (line 187)
MapFailReturn == 0

\* main.c:183-191: uc_mem_map; on failure a diagnostic, uc_close and return 0;
\* on success int21_init()
UcMemMap ==
    /\ pc = "uc_mem_map"
    /\ \E ok \in BOOLEAN :
        IF ~ok
        THEN /\ stderr' = Append(stderr, "Failed to write emulation code to memory, quit!")
             /\ log' = log \o MapFailCalls
             /\ ucState' = StateAfter(ucState, MapFailCalls)
             /\ exitCode' = <<MapFailReturn>>
             /\ pc' = "exit"
             /\ UNCHANGED ucMapped
        ELSE /\ ucMapped' = TRUE
             /\ log' = log \o <<"uc_mem_map", "int21_init">>
             /\ pc' = "load_com"
             /\ UNCHANGED <<stderr, ucState, exitCode>>
    /\ UNCHANGED <<argv, file, memory, fsize, err, regs, ucMem, ucHook, stop,
                   stdout, pspWrites, nIntr, lastIntr, int20Calls, int21Calls>>

\* main.c:194 and load_com, lines 93-137
LoadCom ==
    /\ pc = "load_com"
    /\ IF ~file.exists
       THEN /\ stderr' = Append(stderr, "Error")
            /\ log' = log \o <<"load_com">> \o FopenFailCalls
            /\ ucState' = StateAfter(ucState, FopenFailCalls)
            /\ exitCode' = <<EXIT_FAILURE>>
            /\ pc' = "exit"
            /\ UNCHANGED <<memory, regs, fsize>>
       ELSE IF SizeInvalid(file.size)
       THEN /\ stderr' = Append(stderr, "Invalid file size")
            /\ log' = log \o <<"load_com">> \o SizeFailCalls
            /\ ucState' = StateAfter(ucState, SizeFailCalls)
            /\ exitCode' = <<EXIT_FAILURE>>
            /\ pc' = "exit"
            /\ UNCHANGED <<memory, regs, fsize>>
       ELSE /\ memory' = LoadImage(memory, file.size)
            /\ regs' = LoadRegs(regs)
            /\ log' = log \o <<"load_com">> \o LoadCalls
            /\ fsize' = file.size
            /\ pc' = "setup_psp"
            /\ UNCHANGED <<stderr, ucState, exitCode>>
    /\ UNCHANGED <<argv, file, err, ucMapped, ucMem, ucHook, stop, stdout,
                   pspWrites, nIntr, lastIntr, int20Calls, int21Calls>>

\* main.c:197: setup_psp(0, memory, argc, argv)
SetupPsp ==
    /\ pc = "setup_psp"
    /\ LET r == setup_psp(0, argv)
       IN  /\ memory' = MemStore(memory, r.w)
           /\ pspWrites' = DOMAIN r.w
    /\ log' = Append(log, "setup_psp")
    /\ pc' = "uc_mem_write"
    /\ UNCHANGED <<argv, file, fsize, err, regs, ucState, ucMapped, ucMem, ucHook,
                   stop, stderr, stdout, exitCode, nIntr, lastIntr, int20Calls,
                   int21Calls>>

\* main.c:200: uc_mem_write(uc, 0, memory, DOS_ADDR + fsize)
UcMemWrite ==
    /\ pc = "uc_mem_write"
    /\ ucMem' = [len |-> DOS_ADDR + fsize, src |-> memory]
    /\ log' = Append(log, "uc_mem_write")
    /\ pc' = "uc_hook_add"
    /\ UNCHANGED <<argv, file, memory, fsize, err, regs, ucState, ucMapped, ucHook,
                   stop, stderr, stdout, exitCode, pspWrites, nIntr, lastIntr,
                   int20Calls, int21Calls>>

\* no callback registered
HookCallbackNone == "none"

\* the callback line 203 registers for UC_HOOK_INTR
HookCallback == "hook_intr"

\* main.c:203: uc_hook_add(uc, &trace, UC_HOOK_INTR, hook_intr, NULL)
UcHookAdd ==
    /\ pc = "uc_hook_add"
    /\ ucHook' = HookCallback
    /\ log' = Append(log, "uc_hook_add")
    /\ pc' = "uc_emu_start"
    /\ UNCHANGED <<argv, file, memory, fsize, err, regs, ucState, ucMapped, ucMem,
                   stop, stderr, stdout, exitCode, pspWrites, nIntr, lastIntr,
                   int20Calls, int21Calls>>

\* main.c:205: uc_emu_start is entered
UcEmuStart ==
    /\ pc = "uc_emu_start"
    /\ log' = Append(log, "uc_emu_start")
    /\ pc' = "running"
    /\ UNCHANGED <<argv, file, memory, fsize, err, regs, ucState, ucMapped, ucMem,
                   ucHook, stop, stderr, stdout, exitCode, pspWrites, nIntr,
                   lastIntr, int20Calls, int21Calls>>

\* the run loop: the guest executes a software interrupt and the engine calls the
\* installed hook, hook_intr (lines 140-160), synchronously
EmuIntr ==
    /\ pc = "running"
    /\ ~stop
    /\ nIntr < MaxIntr
    /\ ucHook = "hook_intr"
    /\ \E intno \in IntVectors, ah \in AhValues, ip \in IpValues :
        LET branch == hook_intr(intno)
        IN  /\ regs' = [regs EXCEPT !.ah = ah, !.ip = ip]
            /\ nIntr' = nIntr + 1
            /\ lastIntr' = [intno |-> intno, branch |-> branch]
            /\ int20Calls' = int20Calls + (IF branch = "int20" THEN 1 ELSE 0)
            /\ int21Calls' = int21Calls + (IF branch = "int21" THEN 1 ELSE 0)
            /\ stdout' = IF branch = "default"
                         THEN Append(stdout, <<"interrupt", ip, intno, ah>>)
                         ELSE stdout
            /\ stop' = \/ branch = "int20" /\ Int20Stops
                       \/ branch = "int21" /\ Int21Stops(ah)
            /\ log' = log \o <<"uc_reg_read", "uc_reg_read">>
                          \o (IF stop' THEN <<"uc_emu_stop">> ELSE << >>)
    /\ UNCHANGED <<pc, argv, file, memory, fsize, err, ucState, ucMapped, ucMem,
                   ucHook, stderr, exitCode, pspWrites>>

\* the run loop ends: a stop was requested, so uc_emu_start returns UC_ERR_OK
EmuStopped ==
    /\ pc = "running"
    /\ stop
    /\ err' = 0
    /\ pc' = "emu_returned"
    /\ UNCHANGED <<argv, file, memory, fsize, regs, ucState, ucMapped, ucMem,
                   ucHook, stop, log, stderr, stdout, exitCode, pspWrites, nIntr,
                   lastIntr, int20Calls, int21Calls>>

\* the run loop ends: the guest faults and uc_emu_start returns an error
EmuFault ==
    /\ pc = "running"
    /\ ~stop
    /\ \E e \in UcErrors : err' = e
    /\ pc' = "emu_returned"
    /\ UNCHANGED <<argv, file, memory, fsize, regs, ucState, ucMapped, ucMem,
                   ucHook, stop, log, stderr, stdout, exitCode, pspWrites, nIntr,
                   lastIntr, int20Calls, int21Calls>>

\* the run loop ends: execution reaches the end address DOS_ADDR + 0x10000
EmuReachEnd ==
    /\ pc = "running"
    /\ ~stop
    /\ err' = 0
    /\ pc' = "emu_returned"
    /\ UNCHANGED <<argv, file, memory, fsize, regs, ucState, ucMapped, ucMem,
                   ucHook, stop, log, stderr, stdout, exitCode, pspWrites, nIntr,
                   lastIntr, int20Calls, int21Calls>>

\* the calls main makes after uc_emu_start returned (lines 206-213)
FinishCalls == <<"uc_close">>

\* main.c:206-213: report a run-time error, uc_close, return 0
MainFinish ==
    /\ pc = "emu_returned"
    /\ stderr' = IF err # 0
                 THEN Append(stderr, "Failed on uc_emu_start()")
                 ELSE stderr
    /\ log' = log \o FinishCalls
    /\ ucState' = StateAfter(ucState, FinishCalls)
    /\ exitCode' = <<0>>
    /\ pc' = "exit"
    /\ UNCHANGED <<argv, file, memory, fsize, err, regs, ucMapped, ucMem, ucHook,
                   stop, stdout, pspWrites, nIntr, lastIntr, int20Calls,
                   int21Calls>>

Next ==
    \/ MainArgs
    \/ UcOpen
    \/ UcMemMap
    \/ LoadCom
    \/ SetupPsp
    \/ UcMemWrite
    \/ UcHookAdd
    \/ UcEmuStart
    \/ EmuIntr
    \/ EmuStopped
    \/ EmuFault
    \/ EmuReachEnd
    \/ MainFinish

Spec == Init /\ [][Next]_vars

-----------------------------------------------------------------------------
(* Vocabulary of the properties *)

Min(a, b) == IF a < b THEN a ELSE b

Count(l, name) == Cardinality({k \in 1..Len(l) : l[k] = name})

Called(name) == \E k \in 1..Len(log) : log[k] = name

Last(l) == l[Len(l)]

\* setup_psp has just returned
AfterSetupPsp == pc = "uc_mem_write"

\* load_com has just returned to main
AfterLoadCom == pc = "setup_psp"

\* the length-prefix byte and the tail it announces, read back from memory
TailLength(m) == MemRead(m, 128)
CmdTail(m) == [k \in 1..TailLength(m) |-> MemRead(m, 129 + k - 1)]

RECURSIVE SpacePrefixed(_, _)
\* the arguments from index i (1-based) on, a single space before each
SpacePrefixed(args, i) ==
    IF i > Len(args) THEN << >>
    ELSE <<32>> \o args[i] \o SpacePrefixed(args, i + 1)

RECURSIVE SpaceSeparated(_, _)
\* the arguments from index i (1-based) on, a single space between neighbours
SpaceSeparated(args, i) ==
    IF i > Len(args) THEN << >>
    ELSE IF i = Len(args) THEN args[i]
    ELSE args[i] \o <<32>> \o SpaceSeparated(args, i + 1)

Cut(str, n) == SubSeq(str, 1, Min(n, Len(str)))

\* the cells of CommandLine[] setup_psp stored to
TailStores == {a \in pspWrites : a >= 129}

-----------------------------------------------------------------------------
(* C1: after setup_psp the length-prefix byte equals the number of content    *)
(* bytes stored into the command-line tail (the 0x0D terminator not counted)  *)
(* and is at most 126; arguments asking for more are cut at 126 bytes, and    *)
(* nothing is stored past the 127-byte tail.                                  *)
C1_LengthPrefix ==
    AfterSetupPsp =>
        LET n == TailLength(memory)
        IN  /\ n <= 126
            /\ TailStores = 129..(129 + n)
            /\ Cardinality(TailStores) - 1 = n
            /\ MemRead(memory, 129 + n) = 13
            /\ n = Min(126, Len(SpacePrefixed(argv, 3)))
            /\ \A a \in pspWrites : a <= 255

\* the arguments ask for more than 126 bytes and the tail holds exactly 126
C1_Witness ==
    /\ AfterSetupPsp
    /\ Len(SpacePrefixed(argv, 3)) > 126
    /\ TailLength(memory) = 126

(* C2, as amended: the tail is, for every host argument after the image path  *)
(* (argv[2] onward: the emulator's name and the image path are both skipped), *)
(* a single space followed by the argument, the whole cut to 126 bytes, with  *)
(* 0x0D immediately after the last content byte.                              *)
C2_TailAmended ==
    AfterSetupPsp =>
        /\ CmdTail(memory) = Cut(SpacePrefixed(argv, 3), 126)
        /\ MemRead(memory, 129 + TailLength(memory)) = 13

\* `unidos a.com foo bar`: the tail is " foo bar", 8 bytes, then 0x0D
C2_Witness ==
    /\ AfterSetupPsp
    /\ argv = <<Prog, Com, Foo, Bar>>
    /\ CmdTail(memory) = <<32, 102, 111, 111, 32, 98, 97, 114>>
    /\ MemRead(memory, 129 + 8) = 13

(* C2, as stated: the tail is the concatenation of the host arguments with    *)
(* only the program name argv[0] skipped, single spaces separating them (or,  *)
(* as in the claim's example, one before each), cut to 126 bytes.             *)
C2_TailAsStated ==
    AfterSetupPsp =>
        /\ \/ CmdTail(memory) = Cut(SpaceSeparated(argv, 2), 126)
           \/ CmdTail(memory) = Cut(SpacePrefixed(argv, 2), 126)
        /\ MemRead(memory, 129 + TailLength(memory)) = 13

-----------------------------------------------------------------------------
\* load_com was called on a file that opened
LoadComOnOpenFile == Called("load_com") /\ file.exists

(* C3: for every image size s with s = 0 or s > 0xFF00, load_com fails with   *)
(* the invalid-size error and no emulation starts: the PCB is never built,    *)
(* nothing is written into the engine's mapped memory, no interrupt hook is   *)
(* installed and the run loop is never entered.                               *)
C3_InvalidSizeRejected ==
    (LoadComOnOpenFile /\ (file.size = 0 \/ file.size > 65280)) =>
        /\ pc = "exit"
        /\ Last(stderr) = "Invalid file size"
        /\ exitCode = <<1>>
        /\ ~Called("setup_psp") /\ pspWrites = {} /\ memory = MemUninit
        /\ ~Called("uc_mem_write") /\ ucMem.len = 0
        /\ ~Called("uc_hook_add") /\ ucHook = "none"
        /\ ~Called("uc_emu_start") /\ nIntr = 0

\* an image one byte too large was rejected
C3_Witness ==
    /\ LoadComOnOpenFile
    /\ file.size = 65281
    /\ pc = "exit"
    /\ Last(stderr) = "Invalid file size"

\* the byte guest memory must hold at a after an image of s bytes was loaded
LoadedByte(a, s) == IF 256 <= a /\ a < 256 + s THEN FileByte(a - 256) ELSE 0

\* every address whose content is not the fill value, and the image's range
Support(m, s) ==
    DOMAIN m.cells \cup (m.img.base..(m.img.base + m.img.len - 1))
                   \cup (256..(256 + s - 1))

(* C4: for every image size s with 0 < s <= 0xFF00, load_com succeeds,        *)
(* returns s, and when it returns guest memory holds exactly the s image      *)
(* bytes at offsets 0x100 .. 0x100+s-1, every other byte of the 1 MiB region  *)
(* being zero.                                                                *)
C4_ValidSizeLoaded ==
    (LoadComOnOpenFile /\ 0 < file.size /\ file.size <= 65280) =>
        /\ \A k \in 1..Len(stderr) : stderr[k] \notin {"Error", "Invalid file size"}
        /\ AfterLoadCom =>
            /\ fsize = file.size
            /\ memory.fill = 0
            /\ \A a \in Support(memory, file.size) :
                   /\ a \in 0..(MEM_SIZE - 1)
                   /\ MemRead(memory, a) = LoadedByte(a, file.size)

\* the largest valid image was loaded
C4_Witness ==
    /\ AfterLoadCom
    /\ file.size = 65280
    /\ fsize = 65280
    /\ MemRead(memory, 256) = 205
    /\ MemRead(memory, 255) = 0

\* the diagnostics of the four unrecoverable errors
FatalDiagnostics ==
    {"Error", "Invalid file size",
     "Failed to write emulation code to memory, quit!",
     "Cannot initialize unicorn"}

(* C5: each of the four unrecoverable errors (image cannot be opened, image   *)
(* size invalid, engine memory map failure, engine context initialization     *)
(* failure) ends the process at once with a nonzero exit status, and the run  *)
(* loop is never entered after any of them.                                   *)
C5_FatalErrorsExitNonzero ==
    (stderr # << >> /\ Last(stderr) \in FatalDiagnostics) =>
        /\ pc = "exit"
        /\ exitCode \notin {<< >>, <<0>>}
        /\ ~Called("uc_emu_start")

IsDriverStep(e) ==
    e \in {"uc_open", "uc_mem_map", "load_com", "setup_psp", "uc_mem_write",
           "uc_hook_add", "uc_emu_start"}

(* C6: in every execution that reaches the run loop the driver's steps        *)
(* happened exactly once each and in the order open context, map memory,      *)
(* load image, build PCB, write image with the PCB into mapped memory,        *)
(* install the interrupt hook, run; the PCB is built and the hook installed   *)
(* before the first guest instruction, and guest memory is zeroed and         *)
(* populated exactly once.                                                    *)
C6_DriverOrder ==
    Called("uc_emu_start") =>
        /\ SelectSeq(log, IsDriverStep) =
             <<"uc_open", "uc_mem_map", "load_com", "setup_psp", "uc_mem_write",
               "uc_hook_add", "uc_emu_start">>
        /\ Count(log, "memset") = 1
        /\ Count(log, "fread") = 1
        /\ ucState # "none" /\ ucMapped
        /\ pspWrites # {}
        /\ ucHook = "hook_intr"
        /\ ucMem.len = 256 + fsize
        /\ UcMemRead(ucMem, 0) = 205 /\ UcMemRead(ucMem, 1) = 32
        /\ UcMemRead(ucMem, 256) = FileByte(0)

\* the guest raised interrupts in a run started in that order
C6_Witness ==
    /\ pc = "running"
    /\ nIntr = 2
    /\ Last(log) # "uc_emu_start"

-----------------------------------------------------------------------------
\* this step delivers an interrupt to hook_intr
Dispatch == nIntr' = nIntr + 1

\* what one delivery of vector v does: exactly one of the three outcomes
OneOutcome(v) ==
    /\ v = 32 => /\ int20Calls' = int20Calls + 1
                 /\ int21Calls' = int21Calls
                 /\ stdout' = stdout
    /\ v = 33 => /\ int21Calls' = int21Calls + 1
                 /\ int20Calls' = int20Calls
                 /\ stdout' = stdout
    /\ v \notin {32, 33} =>
                 /\ int20Calls' = int20Calls
                 /\ int21Calls' = int21Calls
                 /\ stdout' = Append(stdout, <<"interrupt", regs'.ip, v, regs'.ah>>)
                 /\ stop' = stop
                 /\ pc' = "running"

\* the run loop returns to main in this step
RunEnds == pc = "running" /\ pc' = "emu_returned"

(* C7, as stated: every vector delivered to hook_intr has exactly one of      *)
(* three outcomes (0x20: only the termination handler; 0x21: only the DOS API *)
(* handler; any other: neither handler, a report, and emulation resumes), and *)
(* the run reaches a terminal state through the termination handler only.     *)
C7_DispatchAsStated ==
    [][ /\ Dispatch => OneOutcome(lastIntr'.intno)
        /\ RunEnds => (int20Calls > 0 /\ lastIntr.intno = 32) ]_vars

(* C7, as amended: every vector delivered to hook_intr has exactly one of the *)
(* three outcomes, and the dispatcher itself never halts the run: a stop is   *)
(* requested only inside the termination handler or inside the DOS API        *)
(* handler (its process-termination function); a run that ends without a      *)
(* stop request was ended by the engine (a run-time fault, which main         *)
(* reports, or the end address), not by the dispatcher.                       *)
C7_DispatchAmended ==
    [][ /\ Dispatch => OneOutcome(lastIntr'.intno)
        /\ (stop' /\ ~stop) =>
              /\ Dispatch
              /\ \/ lastIntr'.intno = 32 /\ int20Calls' = int20Calls + 1
                 \/ lastIntr'.intno = 33 /\ int21Calls' = int21Calls + 1
        /\ RunEnds =>
              \/ stop /\ lastIntr.intno \in {32, 33} /\ err' = 0
              \/ ~stop /\ UNCHANGED <<nIntr, lastIntr, int20Calls, int21Calls, stdout>> ]_vars

\* an unhandled vector was reported, the run went on and then ended in a fault
C7_Witness ==
    /\ pc = "emu_returned"
    /\ lastIntr = [intno |-> 16, branch |-> "default"]
    /\ int20Calls = 0 /\ int21Calls = 0
    /\ Len(stdout) = nIntr
    /\ ~stop
    /\ err # 0

(* C8: dispatching the termination vector 0x20 always halts the run loop      *)
(* after the current instruction: once termination is signalled no further    *)
(* interrupt is dispatched and no DOS API handling is invoked for the rest of *)
(* the run.                                                                   *)
C8_TerminationHalts ==
    [][ /\ (Dispatch /\ lastIntr'.intno = 32) => (stop' /\ int20Calls' = int20Calls + 1)
        /\ stop => /\ stop'
                   /\ nIntr' = nIntr
                   /\ int20Calls' = int20Calls
                   /\ int21Calls' = int21Calls
                   /\ pc = "running" => (pc' = "emu_returned" /\ err' = 0) ]_vars

\* vector 0x20 was dispatched after a DOS API call and the run loop has returned
C8_Witness ==
    /\ pc = "emu_returned"
    /\ lastIntr.intno = 32
    /\ stop
    /\ int20Calls = 1
    /\ int21Calls = 1

(* C9: every byte setup_psp stores lies inside the 256-byte PCB at offsets    *)
(* 0x00..0xFF (the terminator's highest position is 0xFF), so building the    *)
(* PCB after loading leaves every image byte at 0x100 and above unchanged.    *)
C9_PspInsidePcb ==
    /\ \A a \in pspWrites : 0 <= a /\ a <= 255
    /\ SizeofPSP = 256
    /\ AfterSetupPsp =>
          /\ memory.fill = 0
          /\ \A a \in 256..(256 + fsize - 1) : MemRead(memory, a) = FileByte(a - 256)

\* the terminator was stored at offset 0xFF, below an image of the largest size
C9_Witness ==
    /\ AfterSetupPsp
    /\ 255 \in pspWrites
    /\ MemRead(memory, 255) = 13
    /\ fsize = 65280

EngineOps ==
    {"uc_open", "uc_mem_map", "uc_reg_write", "uc_reg_read", "uc_mem_write",
     "uc_hook_add", "uc_emu_start", "uc_emu_stop", "uc_close"}

\* uc_open succeeded
Opened == ucState # "none"

(* C10: on every path through main and load_com after the context was opened  *)
(* (map failure, image open failure, invalid size, run-time error, normal     *)
(* completion) the context is closed exactly once before the process ends     *)
(* and no engine operation follows the close; when opening fails or the       *)
(* argument is missing the context is never closed.                           *)
C10_ClosedOnce ==
    /\ Count(log, "uc_close") <= 1
    /\ \A k \in 1..Len(log) :
          log[k] = "uc_close" => \A j \in (k + 1)..Len(log) : log[j] \notin EngineOps
    /\ ucState = "closed" <=> Count(log, "uc_close") = 1
    /\ ~Opened => Count(log, "uc_close") = 0
    /\ (pc = "exit" /\ Opened) => Count(log, "uc_close") = 1

\* the run loop returned an error and the context was closed
C10_Witness ==
    /\ pc = "exit"
    /\ err # 0
    /\ Last(stderr) = "Failed on uc_emu_start()"
    /\ ucState = "closed"
    /\ Last(log) = "uc_close"

=============================================================================
